---- MODULE Spec2Model ----
(***************************************************************************)
(* Authentication, session and at-rest encryption lifecycle of the ECB     *)
(* Financial Data Visualizer (app.py, src/auth/*.py, src/utils/*.py).      *)
(*                                                                         *)
(* Time is counted in minutes.  Every datetime.now() read inside one       *)
(* request handler returns the same minute `now`.                          *)
(***************************************************************************)
EXTENDS Integers, Sequences, FiniteSets, TLC

VARIABLES
    now,                  \* wall clock, minutes
    auth_service,         \* app.py global: FALSE = None, TRUE = an AuthService
    crypto_service,       \* app.py global: FALSE = None, TRUE = a DatabaseCryptoService
    database_initialized, \* app.py global
    failed_attempts,      \* AuthService.failed_attempts: client -> record
    active_sessions,      \* AuthService.active_sessions: token -> record
    issued,               \* number of tokens secrets.token_urlsafe has produced
    database_file,        \* content of data/database.db, or NoFile
    encrypted_file,       \* content of data/database.db.encrypted, or NoFile
    last,                 \* the last request served and the response it got
    threads,              \* the request threads inside validate_pin
    calls,                \* number of concurrent validate_pin calls started
    counted,              \* per client, the calls answered as a recorded failure
    backup_file,          \* the file at backup_db_path
    file_ops,             \* the request threads inside decrypt_database / lock_database
    sweep,                \* the thread inside cleanup_expired_sessions
    comparisons           \* hash comparisons made by the concurrent validate_pin calls

vars == <<now, auth_service, crypto_service, database_initialized,
          failed_attempts, active_sessions, issued, database_file,
          encrypted_file, last, threads, calls, counted, backup_file,
          file_ops, sweep, comparisons>>

thread_vars == <<threads, calls, counted>>

store_vars == <<backup_file, file_ops>>

sweep_vars == <<sweep, comparisons>>

---------------------------------------------------------------------------
(* Configuration (src/utils/config.py, SECURITY_CONFIG)                    *)

session_timeout_minutes == 30
max_login_attempts == 5
lockout_duration_minutes == 15

(* Bounds of the model *)
MaxTime == 32
MaxSessions == 2
NThreads == 2
MaxCalls == 6
Clients == {"10.0.0.1", "10.0.0.2"}
\* The clock advances in steps that land exactly on a deadline and one
\* minute past it (15, 16, 30 = 15+15, 31 = 15+16).
TickSteps == {lockout_duration_minutes, lockout_duration_minutes + 1}
\* Between the requests of the whole application the clock advances by 16:
\* past a lockout, and past a session that was idle for two such gaps.
RequestGaps == {lockout_duration_minutes + 1}

---------------------------------------------------------------------------
(* PINs are strings, modelled as sequences of one-character strings.       *)

Digits == {"0", "1", "2", "3", "4", "5", "6", "7", "8", "9"}
Whitespace == {" "}

CorrectPin == <<"1", "1", "2", "2", "3", "3">>
WrongPin == <<"1", "2", "3", "4", "5", "6">>
PaddedPin == <<" ", "1", "1", "2", "2", "3", "3", " ">>
ShortPin == <<"1", "1", "2", "2", "3">>
AlphaPin == <<"1", "1", "2", "2", "3", "x">>
EmptyPin == <<>>

\* what a client may put in the "pin" field of the JSON body
SubmittedPins == {CorrectPin, WrongPin, PaddedPin, ShortPin, AlphaPin, EmptyPin}

\* str.strip()
RECURSIVE lstrip(_)
lstrip(s) == IF s # <<>> /\ Head(s) \in Whitespace THEN lstrip(Tail(s)) ELSE s

RECURSIVE rstrip(_)
rstrip(s) ==
    IF s # <<>> /\ s[Len(s)] \in Whitespace
    THEN rstrip(SubSeq(s, 1, Len(s) - 1))
    ELSE s

strip(s) == rstrip(lstrip(s))

\* str.isdigit(): non-empty and every character a digit
isdigit(s) == s # <<>> /\ \A i \in 1..Len(s) : s[i] \in Digits

(* bcrypt: hashpw(pin, salt) embeds the salt next to a digest of (salt,    *)
(* pin); checkpw recomputes the hash with the stored salt and compares.    *)
ConfigSalt == "yoH9SuJWxxfnV8oLpWj/tu"

hashpw(pin, salt) == [salt |-> salt, digest |-> <<salt, pin>>]

checkpw(pin, hashed) == hashpw(pin, hashed.salt) = hashed

\* SECURITY_CONFIG["pin_hash"]: the bcrypt hash of PIN "112233"
pin_hash == hashpw(CorrectPin, ConfigSalt)

\* A faulty variant of verify_pin: only the first digit is compared.
verify_pin_prefix(pin, hashed_pin) ==
    hashpw(SubSeq(pin, 1, 1), hashed_pin.salt).digest[2] =
        SubSeq(hashed_pin.digest[2], 1, 1)

verify_pin(pin, hashed_pin) == checkpw(pin, hashed_pin)

---------------------------------------------------------------------------
(* Python dict helpers *)

DictDel(d, k) == [x \in DOMAIN d \ {k} |-> d[x]]

DictSet(d, k, v) == [x \in DOMAIN d \cup {k} |-> IF x = k THEN v ELSE d[x]]

EmptyDict == [x \in {} |-> x]

Max(a, b) == IF a >= b THEN a ELSE b

---------------------------------------------------------------------------
(* AuthService: lockout tracker.  Each operator takes the dict fa and the  *)
(* clock t and returns the value returned and/or the dict afterwards.      *)

\* A faulty variant of _is_client_locked_out: the lockout already ends at
\* the minute locked_until instead of after it.
_is_client_locked_out_early(fa, client_ip, t) ==
    IF client_ip \notin DOMAIN fa
    THEN [ret |-> FALSE, failed_attempts |-> fa]
    ELSE IF "locked_until" \in DOMAIN fa[client_ip]
         THEN IF t >= fa[client_ip].locked_until
              THEN [ret |-> FALSE, failed_attempts |-> DictDel(fa, client_ip)]
              ELSE [ret |-> TRUE, failed_attempts |-> fa]
         ELSE [ret |-> FALSE, failed_attempts |-> fa]

\* A faulty variant of _is_client_locked_out: a lockout that has run out is
\* reported as over but its record is kept.
_is_client_locked_out_stale(fa, client_ip, t) ==
    IF client_ip \notin DOMAIN fa
    THEN [ret |-> FALSE, failed_attempts |-> fa]
    ELSE IF "locked_until" \in DOMAIN fa[client_ip]
         THEN [ret |-> ~(t > fa[client_ip].locked_until), failed_attempts |-> fa]
         ELSE [ret |-> FALSE, failed_attempts |-> fa]

\* _is_client_locked_out: [ret, failed_attempts]
_is_client_locked_out(fa, client_ip, t) ==
    IF client_ip \notin DOMAIN fa
    THEN [ret |-> FALSE, failed_attempts |-> fa]
    ELSE IF "locked_until" \in DOMAIN fa[client_ip]
         THEN IF t > fa[client_ip].locked_until
              THEN [ret |-> FALSE, failed_attempts |-> DictDel(fa, client_ip)]
              ELSE [ret |-> TRUE, failed_attempts |-> fa]
         ELSE [ret |-> FALSE, failed_attempts |-> fa]

_get_lockout_remaining_time(fa, client_ip, t) ==
    IF client_ip \notin DOMAIN fa \/ "locked_until" \notin DOMAIN fa[client_ip]
    THEN 0
    ELSE Max(0, fa[client_ip].locked_until - t)

\* A faulty variant of ShouldLockOut: the threshold is off by one.
ShouldLockOut_late(count) == count > max_login_attempts

\* the threshold test of _record_failed_attempt
ShouldLockOut(count) == count >= max_login_attempts

\* A faulty variant of _record_failed_attempt: locked_until is never set.
_record_failed_attempt_unlocked(fa, client_ip, t) ==
    LET fa1 == IF client_ip \notin DOMAIN fa
               THEN DictSet(fa, client_ip, [count |-> 0, first_attempt |-> t])
               ELSE fa
        rec1 == fa1[client_ip]
    IN  DictSet(fa1, client_ip,
                [last_attempt |-> t] @@
                [k \in DOMAIN rec1 \ {"last_attempt"} |->
                    IF k = "count" THEN rec1.count + 1 ELSE rec1[k]])

\* _record_failed_attempt: the dict afterwards
_record_failed_attempt(fa, client_ip, t) ==
    LET fa1 == IF client_ip \notin DOMAIN fa
               THEN DictSet(fa, client_ip, [count |-> 0, first_attempt |-> t])
               ELSE fa
        rec1 == fa1[client_ip]
        rec2 == [last_attempt |-> t] @@
                [k \in DOMAIN rec1 \ {"last_attempt"} |->
                    IF k = "count" THEN rec1.count + 1 ELSE rec1[k]]
        rec3 == IF ShouldLockOut(rec2.count)
                THEN [locked_until |-> t + lockout_duration_minutes] @@
                     [k \in DOMAIN rec2 \ {"locked_until"} |-> rec2[k]]
                ELSE rec2
    IN  DictSet(fa1, client_ip, rec3)

\* A faulty variant of _clear_failed_attempts: the record is kept.
_clear_failed_attempts_kept(fa, client_ip) == fa

_clear_failed_attempts(fa, client_ip) ==
    IF client_ip \in DOMAIN fa THEN DictDel(fa, client_ip) ELSE fa

\* A faulty variant of PinFormatOk: every pin passes the format test.
PinFormatOk_lenient(pin) == TRUE

\* the format test of validate_pin
PinFormatOk(pin) == ~(pin = <<>> \/ Len(pin) # 6 \/ ~isdigit(pin))

\* A faulty variant of validate_pin: an attempt made during a lockout is
\* recorded as one more failure.
validate_pin_counting(fa, pin, client_ip, t) ==
    LET lo == _is_client_locked_out(fa, client_ip, t)
        fa1 == lo.failed_attempts
    IN  IF lo.ret
        THEN [ret |-> <<FALSE, <<"Too many failed attempts",
                                 _get_lockout_remaining_time(fa1, client_ip, t)>>>>,
              failed_attempts |-> _record_failed_attempt(fa1, client_ip, t),
              compared |-> FALSE]
        ELSE IF ~PinFormatOk(pin)
        THEN [ret |-> <<FALSE, <<"PIN must be exactly 6 digits", 0>>>>,
              failed_attempts |-> _record_failed_attempt(fa1, client_ip, t),
              compared |-> FALSE]
        ELSE IF verify_pin(pin, pin_hash)
        THEN [ret |-> <<TRUE, <<"", 0>>>>,
              failed_attempts |-> _clear_failed_attempts(fa1, client_ip),
              compared |-> TRUE]
        ELSE LET fa2 == _record_failed_attempt(fa1, client_ip, t)
             IN  [ret |-> <<FALSE, <<"Invalid PIN",
                                     max_login_attempts - fa2[client_ip].count>>>>,
                  failed_attempts |-> fa2,
                  compared |-> TRUE]

\* validate_pin: [ret = <<is_valid, error_message>>, failed_attempts,
\*                compared = whether PINHasher.verify_pin was called]
validate_pin(fa, pin, client_ip, t) ==
    LET lo == _is_client_locked_out(fa, client_ip, t)
        fa1 == lo.failed_attempts
    IN  IF lo.ret
        THEN [ret |-> <<FALSE, <<"Too many failed attempts",
                                 _get_lockout_remaining_time(fa1, client_ip, t)>>>>,
              failed_attempts |-> fa1,
              compared |-> FALSE]
        ELSE IF ~PinFormatOk(pin)
        THEN [ret |-> <<FALSE, <<"PIN must be exactly 6 digits", 0>>>>,
              failed_attempts |-> _record_failed_attempt(fa1, client_ip, t),
              compared |-> FALSE]
        ELSE IF verify_pin(pin, pin_hash)
        THEN [ret |-> <<TRUE, <<"", 0>>>>,
              failed_attempts |-> _clear_failed_attempts(fa1, client_ip),
              compared |-> TRUE]
        ELSE LET fa2 == _record_failed_attempt(fa1, client_ip, t)
             IN  [ret |-> <<FALSE, <<"Invalid PIN",
                                     max_login_attempts - fa2[client_ip].count>>>>,
                  failed_attempts |-> fa2,
                  compared |-> TRUE]

---------------------------------------------------------------------------
(* AuthService: session registry *)

NoToken == -1       \* the request carries no token (None or "")
ForgedToken == 0    \* a token string that secrets.token_urlsafe never produced

\* create_session: [ret = the token, active_sessions, issued]
create_session(sessions, n, client_ip, t) ==
    LET session_token == n + 1
        session_data == [created_at |-> t, last_activity |-> t,
                         client_ip |-> client_ip, authenticated |-> TRUE]
    IN  [ret |-> session_token,
         active_sessions |-> DictSet(sessions, session_token, session_data),
         issued |-> n + 1]

\* A faulty variant of _destroy_session: the record is not deleted.
_destroy_session_kept(sessions, session_token) ==
    [ret |-> session_token \in DOMAIN sessions, active_sessions |-> sessions]

\* _destroy_session: [ret, active_sessions]
_destroy_session(sessions, session_token) ==
    IF session_token \in DOMAIN sessions
    THEN [ret |-> TRUE, active_sessions |-> DictDel(sessions, session_token)]
    ELSE [ret |-> FALSE, active_sessions |-> sessions]

\* A faulty variant of destroy_session: the whole registry is emptied.
destroy_session_all(sessions, session_token) ==
    [ret |-> session_token \in DOMAIN sessions, active_sessions |-> EmptyDict]

destroy_session(sessions, session_token) == _destroy_session(sessions, session_token)

\* the expiry test of is_session_valid
SessionExpired(last_activity, t) == t - last_activity > session_timeout_minutes

\* A faulty variant of is_session_valid: last_activity is not refreshed, so
\* the timeout runs from creation.
is_session_valid_absolute(sessions, session_token, t) ==
    IF session_token = NoToken \/ session_token \notin DOMAIN sessions
    THEN [ret |-> FALSE, active_sessions |-> sessions]
    ELSE IF SessionExpired(sessions[session_token].last_activity, t)
         THEN [ret |-> FALSE,
               active_sessions |-> _destroy_session(sessions, session_token).active_sessions]
         ELSE [ret |-> TRUE, active_sessions |-> sessions]

\* is_session_valid: [ret, active_sessions]
is_session_valid(sessions, session_token, t) ==
    IF session_token = NoToken \/ session_token \notin DOMAIN sessions
    THEN [ret |-> FALSE, active_sessions |-> sessions]
    ELSE IF SessionExpired(sessions[session_token].last_activity, t)
         THEN [ret |-> FALSE,
               active_sessions |-> _destroy_session(sessions, session_token).active_sessions]
         ELSE [ret |-> TRUE,
               active_sessions |->
                   DictSet(sessions, session_token,
                           [sessions[session_token] EXCEPT !.last_activity = t])]

\* get_session_info: the record, or NoInfo for None
NoInfo == [created_at |-> -1, last_activity |-> -1, client_ip |-> "",
           authenticated |-> FALSE]

get_session_info(sessions, session_token) ==
    IF session_token \in DOMAIN sessions THEN sessions[session_token] ELSE NoInfo

---------------------------------------------------------------------------
(* DatabaseCryptoService.  A path holds NoFile or File(content).  A        *)
(* plaintext content is a SQLite database ("fresh": the empty schema       *)
(* create_all writes, "data": a populated store, "empty": the file         *)
(* sqlite3.connect creates at a path that holds none) or not one ("junk",  *)
(* "partial").                                                             *)

NoFile == <<>>
File(content) == <<content>>
Content(file) == file[1]
SqliteContents == {"fresh", "data", "empty"}

\* PBKDF2-HMAC-SHA256 over the PIN with the fixed salt
_derive_key_from_pin(pin) == <<"ecb_financial_visualizer_salt_2024", pin>>

\* Fernet: the token authenticates the ciphertext under the key
fernet_encrypt(key, plaintext_data) == [mac_key |-> key, plaintext |-> plaintext_data]

\* A faulty variant of fernet_decrypt_ok: every key is accepted.
fernet_decrypt_ok_any(key, token) == TRUE

fernet_decrypt_ok(key, token) == token.mac_key = key

\* A faulty variant of fernet_decrypt: the plaintext is not recovered.
fernet_decrypt_blank(key, token) == "fresh"

fernet_decrypt(key, token) == token.plaintext

\* A faulty variant of is_database_encrypted: when both files exist the
\* plaintext wins.
is_database_encrypted_plain_wins(db, enc) == enc # NoFile /\ db = NoFile

is_database_encrypted(db, enc) ==
    LET encrypted_exists == enc # NoFile
        original_exists == db # NoFile
    IN  IF encrypted_exists /\ ~original_exists THEN TRUE
        ELSE IF original_exists /\ ~encrypted_exists THEN FALSE
        ELSE IF ~encrypted_exists /\ ~original_exists THEN FALSE
        ELSE TRUE

\* A faulty variant of _verify_sqlite_database: any file passes.
_verify_sqlite_database_any(db) == db # NoFile

_verify_sqlite_database(db) == db # NoFile /\ Content(db) \in SqliteContents

\* what a write of the Fernet token leaves when it fails half way
PartialToken == [mac_key |-> <<>>, plaintext |-> "partial"]

\* _create_backup: [ret, backup_file]
_create_backup(db, bak, fault) ==
    IF fault = "backup" THEN [ret |-> FALSE, backup_file |-> bak]
    ELSE IF db # NoFile THEN [ret |-> TRUE, backup_file |-> db]
    ELSE [ret |-> TRUE, backup_file |-> bak]

\* _restore_backup: [ret, database_file]
_restore_backup(db, bak) ==
    IF bak # NoFile THEN [ret |-> TRUE, database_file |-> bak]
    ELSE [ret |-> FALSE, database_file |-> db]

\* cleanup_backup: [ret, backup_file]
cleanup_backup(bak, fault) ==
    IF bak # NoFile
    THEN IF fault = "remove" THEN [ret |-> FALSE, backup_file |-> bak]
         ELSE [ret |-> TRUE, backup_file |-> NoFile]
    ELSE [ret |-> TRUE, backup_file |-> bak]

\* encrypt_database: [ret = <<success, error_message>>, database_file,
\* encrypted_file, backup_file].  fault names the step at which the file
\* system raises, if any.
encrypt_database(db, enc, bak, pin, fault) ==
    LET same == [database_file |-> db, encrypted_file |-> enc, backup_file |-> bak]
        b == _create_backup(db, bak, fault)
        restored == _restore_backup(db, b.backup_file).database_file
        token == fernet_encrypt(_derive_key_from_pin(pin), Content(db))
    IN  IF db = NoFile THEN [ret |-> <<TRUE, "">>] @@ same
        ELSE IF is_database_encrypted(db, enc) THEN [ret |-> <<TRUE, "">>] @@ same
        ELSE IF ~b.ret
        THEN [ret |-> <<FALSE, "Failed to create database backup">>] @@ same
        ELSE IF fault \in {"encrypt_read", "encrypt_open"}
        THEN [ret |-> <<FALSE, "Encryption failed">>, database_file |-> restored,
              encrypted_file |-> enc, backup_file |-> b.backup_file]
        ELSE IF fault = "encrypt_write"
        THEN [ret |-> <<FALSE, "Encryption failed">>, database_file |-> restored,
              encrypted_file |-> File(PartialToken), backup_file |-> b.backup_file]
        ELSE IF fault = "remove"
        THEN [ret |-> <<FALSE, "Encryption failed">>, database_file |-> restored,
              encrypted_file |-> File(token), backup_file |-> b.backup_file]
        ELSE [ret |-> <<TRUE, "">>, database_file |-> NoFile,
              encrypted_file |-> File(token), backup_file |-> b.backup_file]

\* A faulty variant of decrypt_database: the token's authentication is not
\* checked, whatever the key.
decrypt_database_unauthenticated(db, enc, pin, fault) ==
    IF ~is_database_encrypted(db, enc)
    THEN [ret |-> <<TRUE, "">>, database_file |-> db]
    ELSE IF fault \in {"decrypt_read", "decrypt_write"}
    THEN [ret |-> <<FALSE, "Decryption failed">>, database_file |-> db]
    ELSE LET decrypted_data == fernet_decrypt(_derive_key_from_pin(pin), Content(enc))
         IN  IF ~_verify_sqlite_database(File(decrypted_data))
             THEN [ret |-> <<FALSE, "Decrypted file is not a valid database">>,
                   database_file |-> NoFile]
             ELSE [ret |-> <<TRUE, "">>, database_file |-> File(decrypted_data)]

\* decrypt_database: [ret = <<success, error_message>>, database_file].
\* fault names the step at which the file system raises, if any.
decrypt_database(db, enc, pin, fault) ==
    IF ~is_database_encrypted(db, enc)
    THEN [ret |-> <<TRUE, "">>, database_file |-> db]
    ELSE IF enc = NoFile
    THEN [ret |-> <<FALSE, "Encrypted database file not found">>, database_file |-> db]
    ELSE IF fault = "decrypt_read"
    THEN [ret |-> <<FALSE, "Decryption failed">>, database_file |-> db]
    ELSE IF ~fernet_decrypt_ok(_derive_key_from_pin(pin), Content(enc))
    THEN [ret |-> <<FALSE, "Invalid PIN - cannot decrypt database">>, database_file |-> db]
    ELSE IF fault = "decrypt_write"
    THEN [ret |-> <<FALSE, "Decryption failed">>, database_file |-> File("partial")]
    ELSE LET decrypted_data == fernet_decrypt(_derive_key_from_pin(pin), Content(enc))
         IN  IF ~_verify_sqlite_database(File(decrypted_data))
             THEN [ret |-> <<FALSE, "Decrypted file is not a valid database">>,
                   database_file |-> NoFile]
             ELSE [ret |-> <<TRUE, "">>, database_file |-> File(decrypted_data)]

\* A faulty variant of lock_database: the plaintext file is left in place.
lock_database_kept(db, fault) == [ret |-> <<TRUE, "">>, database_file |-> db]

\* lock_database: [ret = <<success, error_message>>, database_file]
lock_database(db, fault) ==
    IF db # NoFile
    THEN IF fault = "remove"
         THEN [ret |-> <<FALSE, "Failed to lock database">>, database_file |-> db]
         ELSE [ret |-> <<TRUE, "">>, database_file |-> NoFile]
    ELSE [ret |-> <<TRUE, "">>, database_file |-> db]

---------------------------------------------------------------------------
(* database.py: create_tables opens the SQLite file (creating it when it   *)
(* is absent) and creates the missing tables.                              *)

\* init_database: [ret, database_file]
init_database(db, fault) ==
    IF fault = "init_database" THEN [ret |-> FALSE, database_file |-> db]
    ELSE IF db = NoFile THEN [ret |-> TRUE, database_file |-> File("fresh")]
    ELSE IF Content(db) \in SqliteContents THEN [ret |-> TRUE, database_file |-> db]
    ELSE [ret |-> FALSE, database_file |-> db]

---------------------------------------------------------------------------
(* app.py: the globals the handlers share, as one record *)

Globals ==
    [auth_service |-> auth_service,
     crypto_service |-> crypto_service,
     database_initialized |-> database_initialized,
     failed_attempts |-> failed_attempts,
     active_sessions |-> active_sessions,
     database_file |-> database_file]

SetGlobals(g) ==
    /\ auth_service' = g.auth_service
    /\ crypto_service' = g.crypto_service
    /\ database_initialized' = g.database_initialized
    /\ failed_attempts' = g.failed_attempts
    /\ active_sessions' = g.active_sessions
    /\ database_file' = g.database_file

\* the step of one request at which the environment raises, if any
Faults == {"none", "bad_request", "decrypt_read", "decrypt_write",
           "init_database", "remove", "session_check"}

\* the faults that can strike in each handler
LoginFaults == {"none", "init_database"}
ValidateFaults == {"none", "bad_request", "decrypt_read", "decrypt_write",
                   "init_database"}
LogoutFaults == {"none", "remove"}
ProtectedFaults == {"none", "session_check"}

\* initialize_database_and_services: [ret, g]
initialize_database_and_services(g, fault) ==
    LET r == init_database(g.database_file, fault)
    IN  IF ~r.ret
        THEN [ret |-> FALSE, g |-> [g EXCEPT !.database_file = r.database_file]]
        ELSE [ret |-> TRUE,
              g |-> [g EXCEPT !.database_file = r.database_file,
                              !.database_initialized = TRUE]]

\* initialize_services: [ret, g]
initialize_services(g, enc, fault) ==
    IF ~g.database_initialized
    THEN LET g1 == [g EXCEPT !.auth_service = TRUE,
                             !.crypto_service = TRUE,
                             !.failed_attempts = EmptyDict,
                             !.active_sessions = EmptyDict]
         IN  IF is_database_encrypted(g1.database_file, enc)
             THEN [ret |-> TRUE, g |-> g1]
             ELSE initialize_database_and_services(g1, fault)
    ELSE [ret |-> TRUE, g |-> g]

NoError == <<"", 0>>

\* the response of POST /auth/validate, with what the handler did
ValidateResponse(body_pin, client_ip, status, error, token, v, decrypted) ==
    [op |-> "auth_validate", pin |-> body_pin, client |-> client_ip,
     token |-> token, path |-> "/auth/validate",
     status |-> status, success |-> status = 200, error |-> error,
     pin_valid |-> v.ret[1], compared |-> v.compared, decrypted |-> decrypted,
     handler_ran |-> TRUE]

\* POST /auth/validate
auth_validate(body_pin, client_ip, fault) ==
    IF ~auth_service
    THEN /\ last' = [op |-> "auth_validate", pin |-> body_pin, client |-> client_ip,
                     token |-> NoToken, path |-> "/auth/validate",
                     status |-> 500, success |-> FALSE,
                     error |-> <<"Authentication service not available", 0>>,
                     pin_valid |-> FALSE, compared |-> FALSE,
                     decrypted |-> "skipped", handler_ran |-> TRUE]
         /\ UNCHANGED <<now, auth_service, crypto_service, database_initialized,
                        failed_attempts, active_sessions, issued, database_file,
                        encrypted_file>>
    ELSE IF fault = "bad_request"
    THEN /\ last' = [op |-> "auth_validate", pin |-> body_pin, client |-> client_ip,
                     token |-> NoToken, path |-> "/auth/validate",
                     status |-> 500, success |-> FALSE,
                     error |-> <<"Authentication error occurred", 0>>,
                     pin_valid |-> FALSE, compared |-> FALSE,
                     decrypted |-> "skipped", handler_ran |-> TRUE]
         /\ UNCHANGED <<now, auth_service, crypto_service, database_initialized,
                        failed_attempts, active_sessions, issued, database_file,
                        encrypted_file>>
    ELSE
    LET pin == strip(body_pin)
        v == validate_pin(failed_attempts, pin, client_ip, now)
        g1 == [Globals EXCEPT !.failed_attempts = v.failed_attempts]
        encrypted == is_database_encrypted(g1.database_file, encrypted_file)
        d == decrypt_database(g1.database_file, encrypted_file, pin, fault)
        g2 == IF encrypted THEN [g1 EXCEPT !.database_file = d.database_file] ELSE g1
        i == IF ~g2.database_initialized
             THEN initialize_database_and_services(g2, fault)
             ELSE [ret |-> TRUE, g |-> g2]
        l == lock_database(i.g.database_file, fault)
        c == create_session(i.g.active_sessions, issued, client_ip, now)
    IN  /\ UNCHANGED <<now, encrypted_file>>
        /\ IF ~v.ret[1]
           THEN /\ SetGlobals(g1)
                /\ issued' = issued
                /\ last' = ValidateResponse(body_pin, client_ip, 401, v.ret[2],
                                            NoToken, v, "skipped")
           ELSE IF encrypted /\ ~d.ret[1]
           THEN /\ SetGlobals(g2)
                /\ issued' = issued
                /\ last' = ValidateResponse(body_pin, client_ip, 401,
                               <<"Invalid PIN - cannot access secure data", 0>>,
                               NoToken, v, "failed")
           ELSE IF ~i.ret
           THEN /\ SetGlobals([i.g EXCEPT !.database_file = l.database_file])
                /\ issued' = issued
                /\ last' = ValidateResponse(body_pin, client_ip, 500,
                               <<"Failed to initialize application services", 0>>,
                               NoToken, v, IF encrypted THEN "ok" ELSE "skipped")
           ELSE /\ issued < MaxSessions
                /\ SetGlobals([i.g EXCEPT !.active_sessions = c.active_sessions])
                /\ issued' = c.issued
                /\ last' = ValidateResponse(body_pin, client_ip, 200, NoError,
                               c.ret, v, IF encrypted THEN "ok" ELSE "skipped")

\* GET /auth/login
auth_login(fault) ==
    LET r == initialize_services(Globals, encrypted_file, fault)
    IN  /\ SetGlobals(r.g)
        /\ last' = [op |-> "auth_login", path |-> "/auth/login",
                    status |-> IF r.ret THEN 200 ELSE 500]
        /\ UNCHANGED <<now, issued, encrypted_file>>

\* middleware.clear_session: the registry afterwards
clear_session(g, session_token) ==
    IF g.auth_service /\ session_token # NoToken
    THEN destroy_session(g.active_sessions, session_token).active_sessions
    ELSE g.active_sessions

\* GET /auth/check-session
auth_check_session(session_token) ==
    LET r == is_session_valid(active_sessions, session_token, now)
        g1 == [Globals EXCEPT !.active_sessions = r.active_sessions]
    IN  /\ UNCHANGED <<now, issued, encrypted_file>>
        /\ IF ~auth_service \/ session_token = NoToken
           THEN /\ SetGlobals(Globals)
                /\ last' = [op |-> "auth_check_session", token |-> session_token,
                            path |-> "/auth/check-session", status |-> 401,
                            valid |-> FALSE, session_info |-> NoInfo]
           ELSE IF r.ret
           THEN /\ SetGlobals(g1)
                /\ last' = [op |-> "auth_check_session", token |-> session_token,
                            path |-> "/auth/check-session", status |-> 200,
                            valid |-> TRUE,
                            session_info |-> get_session_info(g1.active_sessions,
                                                              session_token)]
           ELSE /\ SetGlobals([g1 EXCEPT !.active_sessions =
                                             clear_session(g1, session_token)])
                /\ last' = [op |-> "auth_check_session", token |-> session_token,
                            path |-> "/auth/check-session", status |-> 401,
                            valid |-> FALSE, session_info |-> NoInfo]

\* POST /auth/logout
auth_logout(session_token, fault) ==
    LET g1 == IF auth_service /\ session_token # NoToken
              THEN [Globals EXCEPT !.active_sessions =
                        destroy_session(active_sessions, session_token).active_sessions]
              ELSE Globals
        g2 == [g1 EXCEPT !.active_sessions = clear_session(g1, session_token)]
        l == lock_database(g2.database_file, fault)
        g3 == IF crypto_service THEN [g2 EXCEPT !.database_file = l.database_file]
              ELSE g2
    IN  /\ SetGlobals(g3)
        /\ last' = [op |-> "auth_logout", token |-> session_token,
                    path |-> "/auth/logout", status |-> 200, success |-> TRUE,
                    known |-> session_token \in DOMAIN active_sessions]
        /\ UNCHANGED <<now, issued, encrypted_file>>

\* the routes wrapped by require_authentication that the model serves
ProtectedPaths == {"/", "/api/test"}

IsApiPath(path) == path = "/api/test"

\* _handle_unauthenticated_request: the status of the rejection
_handle_unauthenticated_request(path) == IF IsApiPath(path) THEN 401 ELSE 302

\* A faulty variant of require_authentication: any token is let through.
require_authentication_unchecked(g, session_token, t, fault) ==
    IF ~g.auth_service \/ fault = "session_check" \/ session_token = NoToken
    THEN [ret |-> FALSE, active_sessions |-> g.active_sessions]
    ELSE [ret |-> TRUE, active_sessions |-> g.active_sessions]

\* require_authentication(f): whether the wrapper lets the request through
\* to f, with the registry after the check: [ret, active_sessions]
require_authentication(g, session_token, t, fault) ==
    IF ~g.auth_service
    THEN [ret |-> FALSE, active_sessions |-> g.active_sessions]
    ELSE IF fault = "session_check"
    THEN [ret |-> FALSE, active_sessions |-> g.active_sessions]
    ELSE IF session_token = NoToken
    THEN [ret |-> FALSE, active_sessions |-> g.active_sessions]
    ELSE is_session_valid(g.active_sessions, session_token, t)

\* a request to a protected route: the wrapper, then dashboard / api_test
protected_request(session_token, path, fault) ==
    LET a == require_authentication(Globals, session_token, now, fault)
        g1 == [Globals EXCEPT !.active_sessions = a.active_sessions]
        h == initialize_services(g1, encrypted_file, fault)
    IN  /\ UNCHANGED <<now, issued, encrypted_file>>
        /\ IF ~a.ret
           THEN /\ SetGlobals(g1)
                /\ last' = [op |-> "protected", token |-> session_token,
                            path |-> path, handler_ran |-> FALSE,
                            status |-> _handle_unauthenticated_request(path)]
           ELSE /\ SetGlobals(h.g)
                /\ last' = [op |-> "protected", token |-> session_token,
                            path |-> path, handler_ran |-> TRUE,
                            status |-> IF h.ret THEN 200 ELSE 500]

---------------------------------------------------------------------------
(* The request threads of the threaded server *)

Threads == 1..NThreads

IdleThread == [pc |-> "idle", pin |-> <<>>, client |-> "", count |-> 0]

\* a thread outside cleanup_expired_sessions
IdleSweep == [pc |-> "idle", current_time |-> 0, size |-> 0, visited |-> {},
              expired_sessions |-> {}, due |-> {}, removed |-> {}]

\* a thread outside the DatabaseCryptoService
IdleFileOp == [pc |-> "idle", pin |-> <<>>, data |-> NoFile]

---------------------------------------------------------------------------
(* The state machine *)

\* the store files found on disk when the process starts
InitialStores ==
    { [db |-> NoFile, enc |-> NoFile],
      [db |-> File("data"), enc |-> NoFile],
      [db |-> NoFile,
       enc |-> File(fernet_encrypt(_derive_key_from_pin(CorrectPin), "data"))],
      [db |-> NoFile,
       enc |-> File(fernet_encrypt(_derive_key_from_pin(WrongPin), "data"))],
      [db |-> NoFile,
       enc |-> File(fernet_encrypt(_derive_key_from_pin(CorrectPin), "junk"))] }

\* Importing app.py imports database.database, whose module-level
\* db_manager = DatabaseManager() runs create_tables on the plaintext path.
Init ==
    /\ now = 0
    /\ auth_service = FALSE
    /\ crypto_service = FALSE
    /\ database_initialized = FALSE
    /\ failed_attempts = EmptyDict
    /\ active_sessions = EmptyDict
    /\ issued = 0
    /\ \E store \in InitialStores :
          /\ database_file = init_database(store.db, "none").database_file
          /\ encrypted_file = store.enc
    /\ last = [op |-> "none"]
    /\ threads = [t \in Threads |-> IdleThread]
    /\ calls = 0
    /\ counted = [c \in Clients |-> 0]
    /\ backup_file = NoFile
    /\ file_ops = [t \in Threads |-> IdleFileOp]
    /\ sweep = IdleSweep
    /\ comparisons = 0

\* time passes between two requests
Advance(steps) ==
    /\ \E d \in steps : now + d <= MaxTime /\ now' = now + d
    /\ UNCHANGED <<auth_service, crypto_service, database_initialized,
                   failed_attempts, active_sessions, issued, database_file,
                   encrypted_file, last>>
    /\ UNCHANGED thread_vars
    /\ UNCHANGED store_vars
    /\ UNCHANGED sweep_vars

Tick == Advance(RequestGaps)

\* the tokens a request can present: none, a forged one, or one issued
PresentableTokens == {NoToken, ForgedToken} \cup 1..issued

AuthLogin ==
    /\ \E fault \in LoginFaults : auth_login(fault)
    /\ UNCHANGED thread_vars
    /\ UNCHANGED store_vars
    /\ UNCHANGED sweep_vars

\* the clients and the request bodies of the whole-application runs
RequestClients == {"10.0.0.1"}
RequestPins == {CorrectPin, PaddedPin, WrongPin, ShortPin}

AuthValidate ==
    /\ \E body_pin \in RequestPins, client_ip \in RequestClients,
          fault \in ValidateFaults :
           auth_validate(body_pin, client_ip, fault)
    /\ UNCHANGED thread_vars
    /\ UNCHANGED store_vars
    /\ UNCHANGED sweep_vars

\* the tokens the requests of the whole-application runs present: none, or
\* one issued (live, expired or destroyed)
RequestTokens == {NoToken} \cup 1..issued

AuthCheckSession ==
    /\ \E session_token \in RequestTokens : auth_check_session(session_token)
    /\ UNCHANGED thread_vars
    /\ UNCHANGED store_vars
    /\ UNCHANGED sweep_vars

AuthLogout ==
    /\ \E session_token \in RequestTokens, fault \in LogoutFaults :
           auth_logout(session_token, fault)
    /\ UNCHANGED thread_vars
    /\ UNCHANGED store_vars
    /\ UNCHANGED sweep_vars

ProtectedRequest ==
    /\ \E session_token \in RequestTokens, path \in ProtectedPaths,
          fault \in ProtectedFaults :
           protected_request(session_token, path, fault)
    /\ UNCHANGED thread_vars
    /\ UNCHANGED store_vars
    /\ UNCHANGED sweep_vars

Next ==
    \/ Tick
    \/ AuthLogin
    \/ AuthValidate
    \/ AuthCheckSession
    \/ AuthLogout
    \/ ProtectedRequest

Spec == Init /\ [][Next]_vars

---------------------------------------------------------------------------
(* One AuthService object driven through its methods: the lockout tracker  *)

\* the state after AuthService.__init__
InitAuthService ==
    /\ now = 0
    /\ auth_service = TRUE
    /\ crypto_service = FALSE
    /\ database_initialized = FALSE
    /\ failed_attempts = EmptyDict
    /\ active_sessions = EmptyDict
    /\ issued = 0
    /\ database_file = File("fresh")
    /\ encrypted_file = NoFile
    /\ last = [op |-> "none"]
    /\ threads = [t \in Threads |-> IdleThread]
    /\ calls = 0
    /\ counted = [c \in Clients |-> 0]
    /\ backup_file = NoFile
    /\ file_ops = [t \in Threads |-> IdleFileOp]
    /\ sweep = IdleSweep
    /\ comparisons = 0

Clock == Advance(TickSteps)

ValidatePin ==
    \E pin \in SubmittedPins, client_ip \in Clients :
        LET v == validate_pin(failed_attempts, pin, client_ip, now)
        IN  /\ failed_attempts' = v.failed_attempts
            /\ last' = [op |-> "validate_pin", pin |-> pin, client |-> client_ip,
                        ret |-> v.ret, compared |-> v.compared,
                        count_before |-> IF client_ip \in DOMAIN failed_attempts
                                         THEN failed_attempts[client_ip].count
                                         ELSE 0]
            /\ UNCHANGED <<now, auth_service, crypto_service, database_initialized,
                           active_sessions, issued, database_file, encrypted_file>>
            /\ UNCHANGED thread_vars
            /\ UNCHANGED store_vars
            /\ UNCHANGED sweep_vars

NextLockout ==
    \/ Clock
    \/ ValidatePin

SpecLockout == InitAuthService /\ [][NextLockout]_vars

---------------------------------------------------------------------------
(* One AuthService object driven through its methods: the session registry *)

CreateSession ==
    \E client_ip \in Clients :
        LET c == create_session(active_sessions, issued, client_ip, now)
        IN  /\ issued < MaxSessions
            /\ active_sessions' = c.active_sessions
            /\ issued' = c.issued
            /\ last' = [op |-> "create_session", token |-> c.ret, ret |-> TRUE]
            /\ UNCHANGED <<now, auth_service, crypto_service, database_initialized,
                           failed_attempts, database_file, encrypted_file>>
            /\ UNCHANGED thread_vars
            /\ UNCHANGED store_vars
            /\ UNCHANGED sweep_vars

IsSessionValid ==
    \E session_token \in PresentableTokens :
        LET r == is_session_valid(active_sessions, session_token, now)
        IN  /\ active_sessions' = r.active_sessions
            /\ last' = [op |-> "is_session_valid", token |-> session_token,
                        ret |-> r.ret,
                        known |-> session_token \in DOMAIN active_sessions]
            /\ UNCHANGED <<now, auth_service, crypto_service, database_initialized,
                           failed_attempts, issued, database_file, encrypted_file>>
            /\ UNCHANGED thread_vars
            /\ UNCHANGED store_vars
            /\ UNCHANGED sweep_vars

DestroySession ==
    \E session_token \in PresentableTokens :
        LET r == destroy_session(active_sessions, session_token)
        IN  /\ active_sessions' = r.active_sessions
            /\ last' = [op |-> "destroy_session", token |-> session_token,
                        ret |-> r.ret]
            /\ UNCHANGED <<now, auth_service, crypto_service, database_initialized,
                           failed_attempts, issued, database_file, encrypted_file>>
            /\ UNCHANGED thread_vars
            /\ UNCHANGED store_vars
            /\ UNCHANGED sweep_vars

NextSessions ==
    \/ Clock
    \/ CreateSession
    \/ IsSessionValid
    \/ DestroySession

SpecSessions == InitAuthService /\ [][NextSessions]_vars

---------------------------------------------------------------------------
(* One AuthService object called from the request threads of the threaded  *)
(* server at the same minute.  No lock guards failed_attempts, so a call    *)
(* is a sequence of steps, one per access to the shared dict, and the       *)
(* steps of different threads interleave.  The calls carry PINs the         *)
(* service refuses.                                                         *)

ConcurrentPins == {WrongPin, ShortPin}

SetThread(t, pc, count) ==
    threads' = [threads EXCEPT ![t] = [@ EXCEPT !.pc = pc, !.count = count]]

\* a request thread enters validate_pin
Call(t) ==
    /\ threads[t].pc = "idle"
    /\ calls < MaxCalls
    /\ \E pin \in ConcurrentPins, client_ip \in RequestClients :
           threads' = [threads EXCEPT ![t] =
                          [pc |-> "validate_pin", pin |-> pin,
                           client |-> client_ip, count |-> 0]]
    /\ calls' = calls + 1
    /\ UNCHANGED <<now, auth_service, crypto_service, database_initialized,
                   failed_attempts, active_sessions, issued, database_file,
                   encrypted_file, last, counted>>
    /\ UNCHANGED store_vars
    /\ UNCHANGED sweep_vars

\* validate_pin up to the call of _record_failed_attempt: the lockout test,
\* the format test and the hash comparison
CheckLockedOut(t) ==
    LET th == threads[t]
        lo == _is_client_locked_out(failed_attempts, th.client, now)
    IN  /\ th.pc = "validate_pin"
        /\ IF lo.ret
           THEN /\ failed_attempts' = lo.failed_attempts
                /\ threads' = [threads EXCEPT ![t] = IdleThread]
           ELSE IF PinFormatOk(th.pin) /\ verify_pin(th.pin, pin_hash)
           THEN /\ failed_attempts' =
                      _clear_failed_attempts(lo.failed_attempts, th.client)
                /\ threads' = [threads EXCEPT ![t] = IdleThread]
           ELSE /\ failed_attempts' = lo.failed_attempts
                /\ SetThread(t, "record_failed_attempt", 0)
        /\ UNCHANGED <<now, auth_service, crypto_service, database_initialized,
                       active_sessions, issued, database_file, encrypted_file,
                       last, calls, counted>>
        /\ UNCHANGED store_vars
        /\ UNCHANGED sweep
        /\ comparisons' = IF ~lo.ret /\ PinFormatOk(th.pin)
                          THEN comparisons + 1
                          ELSE comparisons

\* _record_failed_attempt: the membership test
TestMembership(t) ==
    LET th == threads[t]
    IN  /\ th.pc = "record_failed_attempt"
        /\ IF th.client \notin DOMAIN failed_attempts
           THEN SetThread(t, "create_record", 0)
           ELSE SetThread(t, "load_count", 0)
        /\ UNCHANGED <<now, auth_service, crypto_service, database_initialized,
                       failed_attempts, active_sessions, issued, database_file,
                       encrypted_file, last, calls, counted>>
        /\ UNCHANGED store_vars
        /\ UNCHANGED sweep_vars

\* _record_failed_attempt: a fresh record is stored under the client
CreateRecord(t) ==
    LET th == threads[t]
    IN  /\ th.pc = "create_record"
        /\ failed_attempts' = DictSet(failed_attempts, th.client,
                                      [count |-> 0, first_attempt |-> now])
        /\ SetThread(t, "load_count", 0)
        /\ UNCHANGED <<now, auth_service, crypto_service, database_initialized,
                       active_sessions, issued, database_file, encrypted_file,
                       last, calls, counted>>
        /\ UNCHANGED store_vars
        /\ UNCHANGED sweep_vars

\* _record_failed_attempt: `count += 1` reads the count ...
LoadCount(t) ==
    LET th == threads[t]
    IN  /\ th.pc = "load_count"
        /\ SetThread(t, "store_count", failed_attempts[th.client].count)
        /\ UNCHANGED <<now, auth_service, crypto_service, database_initialized,
                       failed_attempts, active_sessions, issued, database_file,
                       encrypted_file, last, calls, counted>>
        /\ UNCHANGED store_vars
        /\ UNCHANGED sweep_vars

\* ... and stores the count it read plus one; last_attempt is set
StoreCount(t) ==
    LET th == threads[t]
        rec == failed_attempts[th.client]
    IN  /\ th.pc = "store_count"
        /\ failed_attempts' =
              DictSet(failed_attempts, th.client,
                      [last_attempt |-> now] @@
                      [k \in DOMAIN rec \ {"last_attempt"} |->
                          IF k = "count" THEN th.count + 1 ELSE rec[k]])
        /\ SetThread(t, "check_threshold", 0)
        /\ UNCHANGED <<now, auth_service, crypto_service, database_initialized,
                       active_sessions, issued, database_file, encrypted_file,
                       last, calls, counted>>
        /\ UNCHANGED store_vars
        /\ UNCHANGED sweep_vars

\* _record_failed_attempt: the threshold test; validate_pin then returns the
\* failure to the caller
CheckThreshold(t) ==
    LET th == threads[t]
        rec == failed_attempts[th.client]
    IN  /\ th.pc = "check_threshold"
        /\ failed_attempts' =
              IF ShouldLockOut(rec.count)
              THEN DictSet(failed_attempts, th.client,
                           [locked_until |-> now + lockout_duration_minutes] @@
                           [k \in DOMAIN rec \ {"locked_until"} |-> rec[k]])
              ELSE failed_attempts
        /\ threads' = [threads EXCEPT ![t] = IdleThread]
        /\ counted' = [counted EXCEPT ![th.client] = @ + 1]
        /\ UNCHANGED <<now, auth_service, crypto_service, database_initialized,
                       active_sessions, issued, database_file, encrypted_file,
                       last, calls>>
        /\ UNCHANGED store_vars
        /\ UNCHANGED sweep_vars

NextConc ==
    \/ \E t \in Threads : Call(t)
    \/ \E t \in Threads : CheckLockedOut(t)
    \/ \E t \in Threads : TestMembership(t)
    \/ \E t \in Threads : CreateRecord(t)
    \/ \E t \in Threads : LoadCount(t)
    \/ \E t \in Threads : StoreCount(t)
    \/ \E t \in Threads : CheckThreshold(t)

SpecConc == InitAuthService /\ [][NextConc]_vars

---------------------------------------------------------------------------
(* One DatabaseCryptoService object driven through its methods             *)

CryptoPins == {CorrectPin, WrongPin}

\* the files a DatabaseCryptoService can find at its paths
CryptoStores ==
    {[db |-> NoFile, enc |-> NoFile],
     [db |-> File("fresh"), enc |-> NoFile],
     [db |-> File("data"), enc |-> NoFile],
     [db |-> File("junk"), enc |-> NoFile],
     [db |-> NoFile,
      enc |-> File(fernet_encrypt(_derive_key_from_pin(CorrectPin), "data"))],
     [db |-> NoFile,
      enc |-> File(fernet_encrypt(_derive_key_from_pin(CorrectPin), "junk"))]}

\* the state of the store that the file presence spells
StoreState(db, enc) ==
    IF db = NoFile /\ enc = NoFile THEN "no_store"
    ELSE IF db = NoFile THEN "locked"
    ELSE IF enc = NoFile THEN "unlocked"
    ELSE "both"

\* the state after DatabaseCryptoService.__init__
InitCryptoService ==
    /\ now = 0
    /\ auth_service = FALSE
    /\ crypto_service = TRUE
    /\ database_initialized = FALSE
    /\ failed_attempts = EmptyDict
    /\ active_sessions = EmptyDict
    /\ issued = 0
    /\ \E store \in CryptoStores :
          /\ database_file = store.db
          /\ encrypted_file = store.enc
    /\ last = [op |-> "none"]
    /\ threads = [t \in Threads |-> IdleThread]
    /\ calls = 0
    /\ counted = [c \in Clients |-> 0]
    /\ backup_file = NoFile
    /\ file_ops = [t \in Threads |-> IdleFileOp]
    /\ sweep = IdleSweep
    /\ comparisons = 0

\* the record of a completed call: the files it found and what it returned
Called(op, pin, fault, ret) ==
    [op |-> op, pin |-> pin, fault |-> fault, ret |-> ret,
     db |-> database_file, enc |-> encrypted_file, bak |-> backup_file]

CryptoFrame ==
    UNCHANGED <<now, auth_service, crypto_service, database_initialized,
                failed_attempts, active_sessions, issued, thread_vars, file_ops,
                sweep_vars>>

EncryptFaults == {"none", "backup", "encrypt_read", "encrypt_open",
                  "encrypt_write", "remove"}
DecryptFaults == {"none", "decrypt_read", "decrypt_write"}

EncryptDatabase ==
    \E pin \in CryptoPins, fault \in EncryptFaults :
        LET r == encrypt_database(database_file, encrypted_file, backup_file,
                                  pin, fault)
        IN  /\ database_file' = r.database_file
            /\ encrypted_file' = r.encrypted_file
            /\ backup_file' = r.backup_file
            /\ last' = Called("encrypt_database", pin, fault, r.ret)
            /\ CryptoFrame

DecryptDatabase ==
    \E pin \in CryptoPins, fault \in DecryptFaults :
        LET r == decrypt_database(database_file, encrypted_file, pin, fault)
        IN  /\ database_file' = r.database_file
            /\ last' = Called("decrypt_database", pin, fault, r.ret)
            /\ UNCHANGED <<encrypted_file, backup_file>>
            /\ CryptoFrame

LockDatabase ==
    \E fault \in LogoutFaults :
        LET r == lock_database(database_file, fault)
        IN  /\ database_file' = r.database_file
            /\ last' = Called("lock_database", <<>>, fault, r.ret)
            /\ UNCHANGED <<encrypted_file, backup_file>>
            /\ CryptoFrame

IsDatabaseEncrypted ==
    /\ last' = Called("is_database_encrypted", <<>>, "none",
                      <<is_database_encrypted(database_file, encrypted_file), "">>)
    /\ UNCHANGED <<database_file, encrypted_file, backup_file>>
    /\ CryptoFrame

CleanupBackup ==
    \E fault \in LogoutFaults :
        LET r == cleanup_backup(backup_file, fault)
        IN  /\ backup_file' = r.backup_file
            /\ last' = Called("cleanup_backup", <<>>, fault, <<r.ret, "">>)
            /\ UNCHANGED <<database_file, encrypted_file>>
            /\ CryptoFrame

NextCrypto ==
    \/ EncryptDatabase
    \/ DecryptDatabase
    \/ LockDatabase
    \/ IsDatabaseEncrypted
    \/ CleanupBackup

SpecCrypto == InitCryptoService /\ [][NextCrypto]_vars

---------------------------------------------------------------------------
(* One DatabaseCryptoService object called from the request threads of the *)
(* threaded server: decrypt_database from auth_validate, lock_database     *)
(* from auth_logout.  No lock guards the files, so a call is a sequence of *)
(* file-system steps and the steps of different threads interleave.        *)

FileOpFrame ==
    UNCHANGED <<now, auth_service, crypto_service, database_initialized,
                failed_attempts, active_sessions, issued, last, thread_vars,
                encrypted_file, backup_file, sweep_vars>>

SetFileOp(t, pc, data) ==
    file_ops' = [file_ops EXCEPT ![t] = [@ EXCEPT !.pc = pc, !.data = data]]

ReturnFileOp(t) == file_ops' = [file_ops EXCEPT ![t] = IdleFileOp]

\* a request thread enters decrypt_database
BeginDecrypt(t) ==
    /\ file_ops[t].pc = "idle"
    /\ \E pin \in CryptoPins :
          file_ops' = [file_ops EXCEPT ![t] =
                          [pc |-> "decrypt_check", pin |-> pin, data |-> NoFile]]
    /\ UNCHANGED database_file
    /\ FileOpFrame

\* decrypt_database: is_database_encrypted looks for the two files
DecryptCheck(t) ==
    /\ file_ops[t].pc = "decrypt_check"
    /\ IF is_database_encrypted(database_file, encrypted_file)
       THEN SetFileOp(t, "decrypt_read", NoFile)
       ELSE ReturnFileOp(t)
    /\ UNCHANGED database_file
    /\ FileOpFrame

\* decrypt_database: the encrypted file is read
DecryptRead(t) ==
    /\ file_ops[t].pc = "decrypt_read"
    /\ IF encrypted_file = NoFile
       THEN ReturnFileOp(t)
       ELSE SetFileOp(t, "decrypt_write", encrypted_file)
    /\ UNCHANGED database_file
    /\ FileOpFrame

\* decrypt_database: the token is decrypted and the plaintext file written
DecryptWrite(t) ==
    LET key == _derive_key_from_pin(file_ops[t].pin)
        token == Content(file_ops[t].data)
    IN  /\ file_ops[t].pc = "decrypt_write"
        /\ IF fernet_decrypt_ok(key, token)
           THEN /\ database_file' = File(fernet_decrypt(key, token))
                /\ SetFileOp(t, "decrypt_verify", NoFile)
           ELSE /\ UNCHANGED database_file
                /\ ReturnFileOp(t)
        /\ FileOpFrame

\* decrypt_database: _verify_sqlite_database opens the plaintext path
\* (sqlite3.connect creates an empty database when the file is gone) and
\* the file is removed when it is not a database
DecryptVerify(t) ==
    /\ file_ops[t].pc = "decrypt_verify"
    /\ database_file' =
          IF database_file = NoFile THEN File("empty")
          ELSE IF _verify_sqlite_database(database_file) THEN database_file
          ELSE NoFile
    /\ ReturnFileOp(t)
    /\ FileOpFrame

\* a request thread enters lock_database
BeginLock(t) ==
    /\ file_ops[t].pc = "idle"
    /\ SetFileOp(t, "lock_check", NoFile)
    /\ UNCHANGED database_file
    /\ FileOpFrame

\* lock_database: database_path.exists()
LockCheck(t) ==
    /\ file_ops[t].pc = "lock_check"
    /\ IF database_file # NoFile
       THEN SetFileOp(t, "lock_remove", NoFile)
       ELSE ReturnFileOp(t)
    /\ UNCHANGED database_file
    /\ FileOpFrame

\* lock_database: os.remove (which raises when the file is already gone)
LockRemove(t) ==
    /\ file_ops[t].pc = "lock_remove"
    /\ database_file' = NoFile
    /\ ReturnFileOp(t)
    /\ FileOpFrame

NextFiles ==
    \/ \E t \in Threads : BeginDecrypt(t)
    \/ \E t \in Threads : DecryptCheck(t)
    \/ \E t \in Threads : DecryptRead(t)
    \/ \E t \in Threads : DecryptWrite(t)
    \/ \E t \in Threads : DecryptVerify(t)
    \/ \E t \in Threads : BeginLock(t)
    \/ \E t \in Threads : LockCheck(t)
    \/ \E t \in Threads : LockRemove(t)

SpecFiles == InitCryptoService /\ [][NextFiles]_vars

---------------------------------------------------------------------------
(* One AuthService object whose cleanup_expired_sessions runs in one       *)
(* thread while the other session methods are called from request          *)
(* threads.  No lock guards active_sessions: the sweep is a sequence of    *)
(* steps, one per item of the dict iteration and one per session it        *)
(* destroys, and the other calls happen between them.                      *)

SweepFrame ==
    UNCHANGED <<now, auth_service, crypto_service, database_initialized,
                failed_attempts, issued, database_file, encrypted_file,
                thread_vars, store_vars, comparisons>>

\* the outcome of a cleanup_expired_sessions call: whether the iteration
\* raised, the sessions that were expired when it started, those it removed
Swept(raised) ==
    [op |-> "cleanup_expired_sessions", raised |-> raised,
     due |-> sweep.due, removed |-> sweep.removed]

\* cleanup_expired_sessions reads the clock and starts to iterate
SweepStart ==
    /\ sweep.pc = "idle"
    /\ sweep' = [pc |-> "iterate", current_time |-> now,
                 size |-> Cardinality(DOMAIN active_sessions),
                 visited |-> {}, expired_sessions |-> {},
                 due |-> {tok \in DOMAIN active_sessions :
                             SessionExpired(active_sessions[tok].last_activity, now)},
                 removed |-> {}]
    /\ UNCHANGED <<active_sessions, last>>
    /\ SweepFrame

\* one step of `for token, session_data in self.active_sessions.items()`:
\* the iterator raises RuntimeError when the dict has changed size, and
\* otherwise yields the next item in insertion order
SweepIterate ==
    LET rest == {tok \in DOMAIN active_sessions :
                    \A v \in sweep.visited : tok > v}
        token == CHOOSE tok \in rest : \A other \in rest : tok <= other
    IN  /\ sweep.pc = "iterate"
        /\ IF Cardinality(DOMAIN active_sessions) # sweep.size
           THEN /\ sweep' = IdleSweep
                /\ last' = Swept(TRUE)
           ELSE IF rest = {}
           THEN /\ sweep' = [sweep EXCEPT !.pc = "destroy"]
                /\ UNCHANGED last
           ELSE /\ sweep' = [sweep EXCEPT
                      !.visited = @ \cup {token},
                      !.expired_sessions =
                          IF SessionExpired(active_sessions[token].last_activity,
                                            sweep.current_time)
                          THEN @ \cup {token} ELSE @]
                /\ UNCHANGED last
        /\ UNCHANGED active_sessions
        /\ SweepFrame

\* one step of `for token in expired_sessions: self._destroy_session(token)`,
\* or the return when the list is exhausted
SweepDestroy ==
    /\ sweep.pc = "destroy"
    /\ IF sweep.expired_sessions = {}
       THEN /\ sweep' = IdleSweep
            /\ last' = Swept(FALSE)
            /\ UNCHANGED active_sessions
       ELSE \E token \in sweep.expired_sessions :
               LET r == _destroy_session(active_sessions, token)
               IN  /\ active_sessions' = r.active_sessions
                   /\ sweep' = [sweep EXCEPT
                         !.expired_sessions = @ \ {token},
                         !.removed = IF r.ret THEN @ \cup {token} ELSE @]
                   /\ UNCHANGED last
    /\ SweepFrame

NextSweep ==
    \/ Clock
    \/ CreateSession
    \/ IsSessionValid
    \/ DestroySession
    \/ SweepStart
    \/ SweepIterate
    \/ SweepDestroy

SpecSweep == InitAuthService /\ [][NextSweep]_vars

---------------------------------------------------------------------------
(* Properties of the lockout tracker, checked under SpecLockout            *)

\* The client has max_login_attempts failures on record and no more than
\* lockout_duration_minutes have passed since the last of them.
LockoutRunning(c) ==
    /\ c \in DOMAIN failed_attempts
    /\ failed_attempts[c].count >= max_login_attempts
    /\ now <= failed_attempts[c].last_attempt + lockout_duration_minutes

\* a step in which validate_pin was called
ValidatePinStep == now' = now /\ last'.op = "validate_pin"

\* the last validate_pin call failed and was counted as a failed attempt
FailureRecorded ==
    /\ last.op = "validate_pin"
    /\ ~last.ret[1]
    /\ last.ret[2][1] # "Too many failed attempts"

\* C1: a client is locked out exactly when max_login_attempts consecutive
\* failures are on record and the lockout duration has not elapsed since the
\* failure that set the lockout: every recorded failure raises the count by
\* one (starting again at one once a lockout has run out), below the
\* threshold _is_client_locked_out answers false, from the failure that
\* reaches it on it answers true, up to and including the minute
\* locked_until.
C1_LockedOutExactlyAtThreshold ==
    /\ \A c \in Clients :
          _is_client_locked_out(failed_attempts, c, now).ret <=> LockoutRunning(c)
    /\ FailureRecorded =>
          /\ last.client \in DOMAIN failed_attempts
          /\ failed_attempts[last.client].count =
                IF last.count_before < max_login_attempts
                THEN last.count_before + 1
                ELSE 1

\* the fifth failure has just locked the client out, and the lockout has
\* been checked again at its last minute
C1_Witness ==
    /\ last.op = "validate_pin"
    /\ last.ret[2] = <<"Too many failed attempts", 0>>
    /\ last.count_before = max_login_attempts
    /\ LockoutRunning(last.client)
    /\ now = failed_attempts[last.client].last_attempt + lockout_duration_minutes

\* C2: while a client is locked out, validate_pin fails for every PIN, the
\* correct one included, and returns before any hash comparison.
C2_LockedOutRejectsWithoutComparison ==
    [][(ValidatePinStep /\ LockoutRunning(last'.client)) =>
          /\ last'.ret[1] = FALSE
          /\ last'.ret[2][1] = "Too many failed attempts"
          /\ last'.compared = FALSE
          /\ failed_attempts' = failed_attempts]_vars

\* the correct PIN was submitted during a lockout and was turned away
C2_Witness ==
    /\ last.op = "validate_pin"
    /\ last.pin = CorrectPin
    /\ LockoutRunning(last.client)
    /\ last.ret[1] = FALSE
    /\ last.compared = FALSE

\* C3: a successful validate_pin deletes the client's lockout record, so the
\* count starts again: the next failure is recorded as the first.
C3_SuccessResetsCounter ==
    [][ValidatePinStep =>
          /\ last'.ret[1] =>
                /\ last'.client \notin DOMAIN failed_attempts'
                /\ \A c \in Clients \ {last'.client} :
                      /\ c \in DOMAIN failed_attempts' <=> c \in DOMAIN failed_attempts
                      /\ c \in DOMAIN failed_attempts =>
                            failed_attempts'[c] = failed_attempts[c]
          /\ (last'.client \notin DOMAIN failed_attempts /\ ~last'.ret[1]) =>
                /\ failed_attempts'[last'.client].count = 1
                /\ "locked_until" \notin DOMAIN failed_attempts'[last'.client]]_vars

\* a client with some failures below the threshold has just logged in
C3_Witness ==
    /\ last.op = "validate_pin"
    /\ last.ret[1]
    /\ last.count_before \in 1..(max_login_attempts - 1)
    /\ last.client \notin DOMAIN failed_attempts

\* C5: validate_pin succeeds if and only if the client is not locked out
\* when the call starts and the pin is exactly six decimal digits and is the
\* configured PIN.
C5_SuccessIffCorrectPin ==
    [][ValidatePinStep =>
          (last'.ret[1] <=>
              /\ ~LockoutRunning(last'.client)
              /\ Len(last'.pin) = 6
              /\ \A i \in 1..Len(last'.pin) : last'.pin[i] \in Digits
              /\ last'.pin = CorrectPin)]_vars

\* the configured PIN has just been accepted from one client while another
\* client has a refused PIN on record
C5_Witness ==
    /\ last.op = "validate_pin"
    /\ last.pin = CorrectPin
    /\ last.ret[1]
    /\ last.compared
    /\ \E c \in Clients : c # last.client /\ c \in DOMAIN failed_attempts

\* the client's record carries a locked_until that has passed
LockoutExpired(c) ==
    /\ c \in DOMAIN failed_attempts
    /\ "locked_until" \in DOMAIN failed_attempts[c]
    /\ now > failed_attempts[c].locked_until

\* C21: the first lockout check made for a client after its locked_until
\* has passed answers false and deletes the client's whole record: the call
\* is not turned away as locked out, a success leaves no record, and a
\* failure is recorded as the first of max_login_attempts.
C21_ExpiredLockoutIsCleared ==
    [][(ValidatePinStep /\ LockoutExpired(last'.client)) =>
          /\ _is_client_locked_out(failed_attempts, last'.client, now) =
                [ret |-> FALSE,
                 failed_attempts |-> DictDel(failed_attempts, last'.client)]
          /\ last'.ret[2][1] # "Too many failed attempts"
          /\ last'.ret[1] => last'.client \notin DOMAIN failed_attempts'
          /\ ~last'.ret[1] =>
                /\ failed_attempts'[last'.client].count = 1
                /\ "locked_until" \notin DOMAIN failed_attempts'[last'.client]
                /\ last'.compared =>
                      last'.ret[2] = <<"Invalid PIN", max_login_attempts - 1>>]_vars

\* a client whose lockout had run out made a wrong guess, and it was
\* recorded as its first failure
C21_Witness ==
    /\ last.op = "validate_pin"
    /\ last.count_before = max_login_attempts
    /\ last.ret = <<FALSE, <<"Invalid PIN", max_login_attempts - 1>>>>
    /\ failed_attempts[last.client].count = 1
    /\ failed_attempts[last.client].first_attempt = now

\* the pin is empty, not six characters long, or holds a non-digit
Malformed(pin) ==
    \/ pin = <<>>
    \/ Len(pin) # 6
    \/ \E i \in 1..Len(pin) : pin[i] \notin Digits

\* C22: a malformed PIN from a client that is not locked out is rejected
\* without a hash comparison and is recorded exactly as a well-formed wrong
\* PIN would be: the count goes up by one (or starts at one) and the
\* client is locked out when it reaches max_login_attempts.
C22_MalformedPinCounted ==
    [][(/\ ValidatePinStep
        /\ Malformed(last'.pin)
        /\ ~LockoutRunning(last'.client)) =>
          /\ last'.ret = <<FALSE, <<"PIN must be exactly 6 digits", 0>>>>
          /\ last'.compared = FALSE
          /\ failed_attempts' =
                validate_pin(failed_attempts, WrongPin, last'.client, now).failed_attempts
          /\ failed_attempts'[last'.client].count =
                IF last'.client \in DOMAIN failed_attempts
                   /\ ~LockoutExpired(last'.client)
                THEN failed_attempts[last'.client].count + 1
                ELSE 1
          /\ failed_attempts'[last'.client].count >= max_login_attempts =>
                /\ "locked_until" \in DOMAIN failed_attempts'[last'.client]
                /\ failed_attempts'[last'.client].locked_until =
                      now + lockout_duration_minutes]_vars

\* a malformed PIN was the failure that locked the client out
C22_Witness ==
    /\ last.op = "validate_pin"
    /\ Malformed(last.pin)
    /\ last.compared = FALSE
    /\ last.count_before = max_login_attempts - 1
    /\ failed_attempts[last.client].count = max_login_attempts
    /\ failed_attempts[last.client].locked_until = now + lockout_duration_minutes

\* C27: every record in failed_attempts has a count between 1 and
\* max_login_attempts, and carries locked_until exactly when its count is
\* at least max_login_attempts.
C27_RecordCountInRange ==
    \A c \in DOMAIN failed_attempts :
        /\ failed_attempts[c].count \in 1..max_login_attempts
        /\ "locked_until" \in DOMAIN failed_attempts[c] <=>
              failed_attempts[c].count >= max_login_attempts

\* after a validate_pin call, one client is at the threshold with
\* locked_until set and another has a single failure without it
C27_Witness ==
    /\ last.op = "validate_pin"
    /\ \E c1, c2 \in DOMAIN failed_attempts :
          /\ failed_attempts[c1].count = max_login_attempts
          /\ "locked_until" \in DOMAIN failed_attempts[c1]
          /\ failed_attempts[c2].count = 1
          /\ "locked_until" \notin DOMAIN failed_attempts[c2]

\* C28: a validate_pin call made while the client is locked out leaves the
\* client's record as it was: the count is not raised and locked_until is
\* not moved, so it stays lockout_duration_minutes after the failure that
\* set it, and the call reports the time left until then.
C28_LockedAttemptsDoNotExtend ==
    [][(ValidatePinStep /\ LockoutRunning(last'.client)) =>
          /\ last'.client \in DOMAIN failed_attempts'
          /\ failed_attempts'[last'.client].count =
                failed_attempts[last'.client].count
          /\ failed_attempts'[last'.client].last_attempt =
                failed_attempts[last'.client].last_attempt
          /\ failed_attempts'[last'.client].locked_until =
                failed_attempts[last'.client].last_attempt + lockout_duration_minutes
          /\ last'.ret[2][2] =
                failed_attempts[last'.client].locked_until - now]_vars

\* an attempt was made at the last minute of a lockout and the record
\* still names the failure that set it
C28_Witness ==
    /\ last.op = "validate_pin"
    /\ last.ret = <<FALSE, <<"Too many failed attempts", 0>>>>
    /\ last.pin = WrongPin
    /\ failed_attempts[last.client].count = max_login_attempts
    /\ failed_attempts[last.client].locked_until = now
    /\ failed_attempts[last.client].last_attempt = now - lockout_duration_minutes

---------------------------------------------------------------------------
(* Properties of the DatabaseCryptoService, checked under SpecCrypto       *)

\* the store state the last call found, and the one it left
StateBefore == StoreState(last.db, last.enc)
StateAfter == StoreState(database_file, encrypted_file)

\* C11: after a completed encrypt_database, decrypt_database or
\* lock_database call that met no file-system error and did not find both
\* files, the encrypted file and the plaintext file are not both present.
C11_NeverBothFilesAfterOperation ==
    (/\ last.op \in {"encrypt_database", "decrypt_database", "lock_database"}
     /\ last.fault = "none"
     /\ StateBefore # "both") =>
        StateAfter \in {"no_store", "locked", "unlocked"}

\* C12: encrypt_database started in the unlocked state either succeeds and
\* leaves only the encrypted file, or fails and leaves the plaintext file
\* with its original content and no encrypted file.
C12_EncryptIsAtomic ==
    (last.op = "encrypt_database" /\ StateBefore = "unlocked") =>
        IF last.ret[1]
        THEN StateAfter = "locked"
        ELSE /\ database_file = last.db
             /\ encrypted_file = NoFile

\* C13: when encrypt_database returns success, the backup copy it made of
\* the plaintext is no longer on disk.
C13_NoBackupAfterEncrypt ==
    (/\ last.op = "encrypt_database"
     /\ StateBefore = "unlocked"
     /\ last.bak = NoFile
     /\ last.ret[1]) =>
        backup_file = NoFile

\* a step in which the named method of the DatabaseCryptoService was called
CryptoStep(op) == last'.op = op

\* the encrypted file holds a token made under the key of a PIN other than pin
EncryptedUnderOtherPin(enc, pin) ==
    /\ enc # NoFile
    /\ \E q \in CryptoPins :
          q # pin /\ Content(enc).mac_key = _derive_key_from_pin(q)

\* C14: decrypt_database on a locked store with a PIN other than the one
\* the store was encrypted with returns failure, with the message 'Invalid
\* PIN - cannot decrypt database' unless reading the encrypted file itself
\* failed, writes nothing to the plaintext path and leaves the encrypted
\* file as it was: the store stays locked.
C14_WrongPinDecryptFailsCleanly ==
    [][(/\ CryptoStep("decrypt_database")
        /\ StoreState(database_file, encrypted_file) = "locked"
        /\ EncryptedUnderOtherPin(encrypted_file, last'.pin)) =>
          /\ last'.ret[1] = FALSE
          /\ last'.fault # "decrypt_read" =>
                last'.ret[2] = "Invalid PIN - cannot decrypt database"
          /\ database_file' = NoFile
          /\ encrypted_file' = encrypted_file
          /\ backup_file' = backup_file]_vars

\* a store encrypted under the configured PIN was offered another PIN and
\* stayed locked
C14_Witness ==
    /\ last.op = "decrypt_database"
    /\ last.pin = WrongPin
    /\ last.fault = "none"
    /\ StateBefore = "locked"
    /\ EncryptedUnderOtherPin(last.enc, WrongPin)
    /\ last.ret = <<FALSE, "Invalid PIN - cannot decrypt database">>
    /\ StateAfter = "locked"

\* decrypt_database(p) directly follows a successful encrypt_database(p)
\* that started in the unlocked state, and neither meets a file-system error
RoundTripStep ==
    /\ last.op = "encrypt_database"
    /\ StateBefore = "unlocked"
    /\ last.fault = "none"
    /\ CryptoStep("decrypt_database")
    /\ last'.pin = last.pin
    /\ last'.fault = "none"

\* the round trip succeeded and gave back the content it started with
RoundTripRestores ==
    /\ last.ret[1]
    /\ last'.ret[1]
    /\ database_file' = last.db

\* C15 as stated: for every content C of the plaintext file and every PIN
\* p, encrypt_database(p) followed by decrypt_database(p) both succeed and
\* the plaintext file then holds exactly C.
C15_RoundTripEveryContent ==
    [][RoundTripStep => RoundTripRestores]_vars

\* C15, amended: for every content C that is a SQLite database and every
\* PIN p, encrypt_database(p) followed by decrypt_database(p) both succeed
\* and the plaintext file then holds exactly C.
C15_RoundTripSqliteContent ==
    [][(RoundTripStep /\ Content(last.db) \in SqliteContents) =>
          RoundTripRestores]_vars

\* a populated store went through encrypt_database and decrypt_database
\* under the same PIN and is back with its content
C15_Witness ==
    /\ last.op = "decrypt_database"
    /\ last.fault = "none"
    /\ last.ret[1]
    /\ last.db = NoFile
    /\ last.bak = File("data")
    /\ Content(last.enc) = fernet_encrypt(_derive_key_from_pin(last.pin), "data")
    /\ database_file = File("data")

\* C16: is_database_encrypted answers from the presence of the two files
\* alone: false when neither exists, false when only the plaintext exists,
\* true when only the encrypted file exists, true when both exist.
C16_IsEncryptedFollowsFilePresence ==
    last.op = "is_database_encrypted" =>
        /\ StateBefore = "no_store" => last.ret[1] = FALSE
        /\ StateBefore = "unlocked" => last.ret[1] = FALSE
        /\ StateBefore = "locked" => last.ret[1] = TRUE
        /\ StateBefore = "both" => last.ret[1] = TRUE

\* is_database_encrypted was asked while both files existed and said true
C16_Witness ==
    /\ last.op = "is_database_encrypted"
    /\ StateBefore = "both"
    /\ last.ret[1] = TRUE

C25_UnverifiedPlaintextRemoved ==
    [][(/\ CryptoStep("decrypt_database")
        /\ last'.fault = "none"
        /\ encrypted_file # NoFile
        /\ Content(encrypted_file).mac_key = _derive_key_from_pin(last'.pin)
        /\ Content(encrypted_file).plaintext \notin SqliteContents) =>
          /\ last'.ret = <<FALSE, "Decrypted file is not a valid database">>
          /\ database_file' = NoFile
          /\ encrypted_file' = encrypted_file
          /\ backup_file' = backup_file]_vars

\* a store whose decrypted content is not a database was opened with the
\* right PIN: no plaintext is left and the encrypted file is as before
C25_Witness ==
    /\ last.op = "decrypt_database"
    /\ last.fault = "none"
    /\ last.pin = CorrectPin
    /\ last.enc = File(fernet_encrypt(_derive_key_from_pin(CorrectPin), "junk"))
    /\ last.ret = <<FALSE, "Decrypted file is not a valid database">>
    /\ database_file = NoFile
    /\ encrypted_file = last.enc

---------------------------------------------------------------------------
(* Properties of concurrent validate_pin calls, checked under SpecConc     *)

\* no validate_pin call is in flight
Quiescent == \A t \in Threads : threads[t].pc = "idle"

\* C4: when several wrong-PIN validate_pin calls of one client run at the
\* same time, every one of them is counted and the client is locked out
\* after exactly max_login_attempts failures in total: once the calls have
\* returned, the count on record is the number of calls that were answered
\* as a failure, that number never exceeds max_login_attempts, and the
\* client is locked out exactly when it has reached max_login_attempts.
C4_ConcurrentFailuresAllCounted ==
    Quiescent =>
        \A c \in RequestClients :
            /\ counted[c] <= max_login_attempts
            /\ counted[c] > 0 =>
                  /\ c \in DOMAIN failed_attempts
                  /\ failed_attempts[c].count = counted[c]
            /\ _is_client_locked_out(failed_attempts, c, now).ret <=>
                  counted[c] >= max_login_attempts

\* C30: for one client, no more than max_login_attempts hash comparisons
\* are made while none of them succeeds and the client's record is never
\* absent in between, whatever the interleaving of the calls.
C30_ComparisonsBounded ==
    comparisons <= max_login_attempts

---------------------------------------------------------------------------
(* Properties of the session sweep, checked under SpecSweep                *)

\* C24: when cleanup_expired_sessions returns, every session that was
\* expired when the sweep started is gone from the registry, and the sweep
\* has removed no other session, whatever the other threads did meanwhile.
C24_SweepRemovesExpiredSessions ==
    last.op = "cleanup_expired_sessions" =>
        /\ last.due \cap DOMAIN active_sessions = {}
        /\ last.removed \subseteq last.due

---------------------------------------------------------------------------
(* Properties of concurrent file operations, checked under SpecFiles       *)

\* the thread has made the first file-system step of decrypt_database or
\* lock_database and has not made the last one yet
InFileOperation(t) ==
    file_ops[t].pc \in {"decrypt_read", "decrypt_write", "decrypt_verify",
                        "lock_remove"}

\* C20: the file steps of decrypt_database and lock_database never
\* interleave: at any time at most one thread is between the first and the
\* last file-system step of such a call.
C20_FileOperationsSerialized ==
    Cardinality({t \in Threads : InFileOperation(t)}) <= 1

---------------------------------------------------------------------------
(* Further properties of the request handlers, checked under Spec          *)

\* the responses POST /auth/validate gives to a well-formed wrong PIN
WrongPinResponses ==
    {[status |-> 401, error |-> <<"Invalid PIN", k>>] :
        k \in 0..(max_login_attempts - 1)}

\* C18: the response to a request whose PIN matched the hash but whose
\* database decryption failed has the status code and the error message of
\* a response to a well-formed wrong PIN.
C18_DecryptFailureLooksLikeWrongPin ==
    (last.op = "auth_validate" /\ last.pin_valid /\ last.decrypted = "failed") =>
        [status |-> last.status, error |-> last.error] \in WrongPinResponses

\* the registry holds a session that has not timed out
LiveSession ==
    \E tok \in DOMAIN active_sessions :
        ~SessionExpired(active_sessions[tok].last_activity, now)

\* C26: whenever the logout handler removes the plaintext file, the
\* encrypted file exists and holds the content the plaintext file had.
C26_LogoutKeepsStoreData ==
    [][(AuthLogout /\ database_file # NoFile /\ database_file' = NoFile) =>
          /\ encrypted_file' # NoFile
          /\ Content(encrypted_file').plaintext = Content(database_file)]_vars

\* C29: whenever the registry holds a session that has not timed out, the
\* plaintext store file is present.
C29_ValidSessionHasPlaintext ==
    LiveSession => database_file # NoFile

\* C19: in every state in which the registry holds no live session, the
\* plaintext store file is absent.
C19_PlaintextOnlyWhileSessionActive ==
    ~LiveSession => database_file = NoFile

---------------------------------------------------------------------------
(* Properties of the session registry, checked under SpecSessions          *)

\* a step in which is_session_valid was called
SessionCheckStep == now' = now /\ last'.op = "is_session_valid"

\* the time since the session was created or last found valid
IdleTime(tok) == now - active_sessions[tok].last_activity

\* C7: a token is valid at the first check after create_session and at
\* every later check that comes no more than session_timeout_minutes after
\* the previous successful check (or the creation), however long ago the
\* session was created: each successful check, and nothing else, restarts
\* the timeout.
C7_SlidingSessionTimeout ==
    [][/\ (now' = now /\ last'.op = "create_session" /\ issued' # issued) =>
             /\ last'.token \in DOMAIN active_sessions'
             /\ active_sessions'[last'.token].last_activity = now
             /\ active_sessions'[last'.token].created_at = now
       /\ (/\ SessionCheckStep
           /\ last'.token \in DOMAIN active_sessions
           /\ IdleTime(last'.token) <= session_timeout_minutes) =>
             /\ last'.ret = TRUE
             /\ last'.token \in DOMAIN active_sessions'
             /\ active_sessions'[last'.token].last_activity = now
             /\ active_sessions'[last'.token].created_at =
                   active_sessions[last'.token].created_at
       /\ \A tok \in DOMAIN active_sessions \cap DOMAIN active_sessions' :
             active_sessions'[tok].last_activity # active_sessions[tok].last_activity =>
                 SessionCheckStep /\ last'.token = tok /\ last'.ret]_vars

\* a session created more than the timeout ago has just been found valid
C7_Witness ==
    /\ last.op = "is_session_valid"
    /\ last.ret
    /\ last.token \in DOMAIN active_sessions
    /\ now - active_sessions[last.token].created_at > session_timeout_minutes
    /\ active_sessions[last.token].last_activity = now

\* C8: a check made more than session_timeout_minutes after the last
\* successful check (or the creation) returns false and removes the record;
\* a token whose record is gone is never valid again.
C8_ExpiredSessionRemoved ==
    [][/\ (/\ SessionCheckStep
           /\ last'.token \in DOMAIN active_sessions
           /\ IdleTime(last'.token) > session_timeout_minutes) =>
             /\ last'.ret = FALSE
             /\ active_sessions' = DictDel(active_sessions, last'.token)
       /\ (SessionCheckStep /\ last'.token \notin DOMAIN active_sessions) =>
             /\ last'.ret = FALSE
             /\ active_sessions' = active_sessions
       /\ \A tok \in 1..issued :
             tok \notin DOMAIN active_sessions => tok \notin DOMAIN active_sessions']_vars

\* a check has just found a registered session expired and removed it
C8_Witness ==
    /\ last.op = "is_session_valid"
    /\ last.known
    /\ ~last.ret
    /\ last.token \notin DOMAIN active_sessions

\* a step in which destroy_session was called
DestroySessionStep == now' = now /\ last'.op = "destroy_session"

\* C23: destroy_session removes the record of a token in the registry and
\* returns true; for a token not in the registry (destroyed before, or
\* never issued) it returns false and leaves the registry unchanged; the
\* records of all other tokens stay as they were.
C23_DestroySessionIdempotent ==
    [][DestroySessionStep =>
          /\ last'.ret = (last'.token \in DOMAIN active_sessions)
          /\ last'.token \notin DOMAIN active_sessions'
          /\ DOMAIN active_sessions' = DOMAIN active_sessions \ {last'.token}
          /\ \A tok \in DOMAIN active_sessions' :
                active_sessions'[tok] = active_sessions[tok]
          /\ destroy_session(active_sessions', last'.token) =
                [ret |-> FALSE, active_sessions |-> active_sessions']]_vars

\* destroy_session was called for an issued token that is already gone,
\* returned false, and another session is still in the registry
C23_Witness ==
    /\ last.op = "destroy_session"
    /\ last.token \in 1..issued
    /\ last.ret = FALSE
    /\ last.token \notin DOMAIN active_sessions
    /\ active_sessions # EmptyDict

---------------------------------------------------------------------------
(* Properties of the request handlers, checked under Spec                  *)

\* C6: a session record appears only in a POST /auth/validate that answers
\* 200 with that token, for the configured PIN from a client that is not
\* locked out and, when an encrypted store is present, after it was
\* decrypted with the key of that PIN into a valid database; a request that
\* answers anything else adds no session and returns no token.
C6_SessionOnlyAfterValidation ==
    [][/\ \A tok \in DOMAIN active_sessions' \ DOMAIN active_sessions :
             /\ now' = now
             /\ last'.op = "auth_validate"
             /\ last'.status = 200
             /\ last'.token = tok
             /\ last'.pin_valid
             /\ strip(last'.pin) = CorrectPin
             /\ ~LockoutRunning(last'.client)
             /\ encrypted_file # NoFile =>
                   /\ last'.decrypted = "ok"
                   /\ Content(encrypted_file).mac_key = _derive_key_from_pin(CorrectPin)
                   /\ Content(encrypted_file).plaintext \in SqliteContents
                   /\ database_file' = File(Content(encrypted_file).plaintext)
       /\ (now' = now /\ last'.op = "auth_validate" /\ last'.status # 200) =>
             /\ DOMAIN active_sessions' \subseteq DOMAIN active_sessions
             /\ issued' = issued
             /\ last'.token = NoToken]_vars

\* the PIN was accepted but the store could not be decrypted: 401, no
\* session, no token
C6_Witness ==
    /\ last.op = "auth_validate"
    /\ last.pin_valid
    /\ last.decrypted = "failed"
    /\ last.status = 401
    /\ last.token = NoToken
    /\ active_sessions = EmptyDict

\* C9: the wrapped handler runs only for a request whose token
\* is_session_valid accepts: with no auth service, no token, an unknown or
\* expired token, or an exception during the check, the handler does not
\* run and the answer is 401 for /api/ paths and a redirect otherwise.
C9_HandlerOnlyForValidSession ==
    [][/\ (now' = now /\ last'.op = "protected") =>
             /\ last'.handler_ran =>
                   /\ auth_service
                   /\ last'.token # NoToken
                   /\ last'.token \in DOMAIN active_sessions
                   /\ IdleTime(last'.token) <= session_timeout_minutes
             /\ ~last'.handler_ran =>
                   last'.status = IF last'.path = "/api/test" THEN 401 ELSE 302
       /\ \A tok \in RequestTokens, path \in ProtectedPaths :
             protected_request(tok, path, "session_check") => ~last'.handler_ran]_vars

\* an /api/ request presenting an issued token that is no longer valid has
\* just been answered 401 without running the handler
C9_Witness ==
    /\ last.op = "protected"
    /\ last.token \in 1..issued
    /\ last.path = "/api/test"
    /\ ~last.handler_ran
    /\ last.status = 401

\* C10: after a logout that answered success for the token of a registered
\* session, that session is gone and the plaintext store file is absent.
C10_LogoutRemovesSessionAndPlaintext ==
    (last.op = "auth_logout" /\ last.success /\ last.known) =>
        /\ last.token \notin DOMAIN active_sessions
        /\ database_file = NoFile

====
